---- MODULE Spec2Model ----
(***************************************************************************)
(* ProjectPathResolver (codebase_rag/project_path_resolver.py): a mutable   *)
(* mapping from dot-delimited project names to resolved filesystem paths,   *)
(* with longest-prefix extraction of the project name from a qualified      *)
(* name.                                                                     *)
(*                                                                           *)
(* Strings are sequences of one-character strings.  A dict is a sequence of *)
(* [name, path] items in insertion order with pairwise distinct names.  A   *)
(* resolved path is the sequence of its components below "/".               *)
(***************************************************************************)
EXTENDS Naturals, Sequences, FiniteSets

VARIABLES
    mappings,       \* self._mappings
    last,           \* the (reading) caller's call in progress / just finished, with its outcome
    pc,             \* where the reading caller is in its call, when calls interleave
    local_project,  \* the reading caller's local variable project_name
    wr,             \* the calls of the other callers, which add and remove
    seen,           \* the values self._mappings has had since the reading caller's call began
    nwrites         \* the number of changes of self._mappings since then

threads == <<pc, local_project, wr, seen, nwrites>>

vars == <<mappings, last, pc, local_project, wr, seen, nwrites>>

-----------------------------------------------------------------------------
(* Bounds of the model *)

MaxEntries == 2     \* largest number of items the dict is grown to
MaxQLen == 5        \* longest qualified name handed to the resolver
MaxWrites == 2      \* most changes of the dict followed while one interleaved read runs

-----------------------------------------------------------------------------
(* Strings *)

Char == {"a", "b", "."}

Dot == <<".">>

RECURSIVE StrUpTo(_)
StrUpTo(n) ==
    IF n = 0 THEN {<<>>}
    ELSE LET shorter == StrUpTo(n - 1)
         IN  shorter \cup {Append(s, c) : s \in {t \in shorter : Len(t) = n - 1}, c \in Char}

\* qualified names given to extract_project_name / resolve_path_from_fqn
QNames == StrUpTo(MaxQLen)

\* project names given to the constructor, add_project, get_project_path, remove_project
\* ("", "a", "ab", ".a", "a.b": the empty name, a name and one below it, a name
\* that continues another without a dot, and a name below the empty name)
Names == { <<>>, <<"a">>, <<"a", "b">>, <<".", "a">>, <<"a", ".", "b">> }

NameA == <<"a">>
NameAB == <<"a", ".", "b">>

\* str.startswith
StartsWith(s, p) == Len(p) <= Len(s) /\ SubSeq(s, 1, Len(p)) = p

\* variant of FirstSegment with index -1: what is behind the last "."
FirstSegmentLast(s) ==
    LET dots == {i \in 1..Len(s) : s[i] = "."}
    IN  IF dots = {} THEN s
        ELSE SubSeq(s, (CHOOSE i \in dots : \A j \in dots : i >= j) + 1, Len(s))

\* variant of FirstSegment without the split: the whole string
FirstSegmentWhole(s) == s

\* s.split(".")[0]
FirstSegment(s) ==
    LET dots == {i \in 1..Len(s) : s[i] = "."}
    IN  IF dots = {} THEN s
        ELSE SubSeq(s, 1, (CHOOSE i \in dots : \A j \in dots : i <= j) - 1)

\* sep.join(items)
RECURSIVE Join(_, _)
Join(items, sep) ==
    IF Len(items) = 0 THEN <<>>
    ELSE IF Len(items) = 1 THEN items[1]
    ELSE items[1] \o sep \o Join(Tail(items), sep)

-----------------------------------------------------------------------------
(* Paths: pathlib.Path(p).resolve() *)

Cwd == << <<"b">> >>                          \* the process's working directory, /b
LinkAt == << <<"l">> >>                       \* /l is a symbolic link ...
LinkTo == << <<"a">> >>                       \* ... to /a
DotDot == <<".", ".">>

\* path strings given by callers: "/a", "a", "/l", "/b/../a", "/l/../b/a"
RawPaths == {
    [abs |-> TRUE,  parts |-> << <<"a">> >>],
    [abs |-> FALSE, parts |-> << <<"a">> >>],
    [abs |-> TRUE,  parts |-> << <<"l">> >>],
    [abs |-> TRUE,  parts |-> << <<"b">>, DotDot, <<"a">> >>],
    [abs |-> TRUE,  parts |-> << <<"l">>, DotDot, <<"b">>, <<"a">> >>] }

\* one component applied to an already resolved directory
Step(dir, part) ==
    IF part = DotDot
    THEN (IF Len(dir) = 0 THEN dir ELSE SubSeq(dir, 1, Len(dir) - 1))
    ELSE LET p == Append(dir, part)
         IN  IF p = LinkAt THEN LinkTo ELSE p

RECURSIVE Walk(_, _)
Walk(dir, parts) ==
    IF Len(parts) = 0 THEN dir ELSE Walk(Step(dir, Head(parts)), Tail(parts))

\* Path(path).resolve(): absolute, symlinks followed, ".." eliminated
Canon(p) == Walk(IF p.abs THEN <<>> ELSE Cwd, p.parts)

\* Path.name of a resolved path
PathName(r) == IF Len(r) = 0 THEN <<>> ELSE r[Len(r)]

\* Path.name of a path as given: its last component
RawName(p) == IF Len(p.parts) = 0 THEN <<>> ELSE p.parts[Len(p.parts)]

\* values of settings.TARGET_REPO_PATH: the paths above and "."
TargetRepoPaths == RawPaths \cup {[abs |-> FALSE, parts |-> <<>>]}

-----------------------------------------------------------------------------
(* dict operations on self._mappings *)

Keys(m) == [i \in 1..Len(m) |-> m[i].name]

KeySet(m) == {m[i].name : i \in 1..Len(m)}

Contains(m, k) == \E i \in 1..Len(m) : m[i].name = k

\* m[k], for k in m
DictGet(m, k) == m[CHOOSE i \in 1..Len(m) : m[i].name = k].path

\* variant of DictSet that never finds the key: the item is always appended
DictSetAppend(m, k, v) == Append(m, [name |-> k, path |-> v])

\* m[k] = v
DictSet(m, k, v) ==
    IF Contains(m, k)
    THEN [i \in 1..Len(m) |-> IF m[i].name = k THEN [name |-> k, path |-> v] ELSE m[i]]
    ELSE Append(m, [name |-> k, path |-> v])

\* variant of DictDel that drops the oldest entry, whatever the key
DictDelFirst(m, k) == Tail(m)

\* del m[k], for k in m
DictDel(m, k) == SelectSeq(m, LAMBDA it : it.name # k)

-----------------------------------------------------------------------------
(* ProjectPathResolver *)

\* argument of a call that has no path argument
NoPath == [abs |-> FALSE, parts |-> <<>>]

\* variant of DefaultMappings that names the project before .resolve()
DefaultMappingsRawName(target) == << [name |-> RawName(target), path |-> Canon(target)] >>

\* the default single-project mapping loaded from the configuration, where
\* settings.TARGET_REPO_PATH is `target`
DefaultMappings(target) ==
    LET default_path == Canon(target)
    IN  << [name |-> PathName(default_path), path |-> default_path] >>

\* for name, path in mappings.items(): self._mappings[name] = Path(path).resolve()
RECURSIVE LoadMappings(_, _)
LoadMappings(acc, items) ==
    IF Len(items) = 0 THEN acc
    ELSE LoadMappings(DictSet(acc, Head(items).name, Canon(Head(items).path)), Tail(items))

\* __init__(mappings): `given` is FALSE for mappings=None; `if mappings:` is the
\* truth value of the argument, false for None and for a dict without items
Construct(given, argmap, target) ==
    IF given /\ Len(argmap) > 0 THEN LoadMappings(<<>>, argmap) ELSE DefaultMappings(target)

\* from_config(config): cls(config.get_project_mappings())
FromConfig(argmap, target) == Construct(TRUE, argmap, target)

\* variant of InsertByLen without reverse=True: shortest names first
InsertByLenAscending(sorted, x) ==
    LET ahead == {i \in 1..Len(sorted) : Len(sorted[i]) <= Len(x)}
        k == Cardinality(ahead)
    IN  SubSeq(sorted, 1, k) \o <<x>> \o SubSeq(sorted, k + 1, Len(sorted))

\* one step of sorted(..., key=len, reverse=True): x goes behind every name at
\* least as long (the sort is stable, also when reversed)
InsertByLen(sorted, x) ==
    LET ahead == {i \in 1..Len(sorted) : Len(sorted[i]) >= Len(x)}
        k == Cardinality(ahead)
    IN  SubSeq(sorted, 1, k) \o <<x>> \o SubSeq(sorted, k + 1, Len(sorted))

RECURSIVE SortByLen(_, _)
SortByLen(sorted, rest) ==
    IF Len(rest) = 0 THEN sorted ELSE SortByLen(InsertByLen(sorted, Head(rest)), Tail(rest))

\* variant of SortedProjects without the sort: the keys in insertion order
SortedProjectsUnsorted(m) == Keys(m)

\* variant of SortedProjects with a constant key: the sort is stable, so the
\* names stay in insertion order
SortedProjectsConstantKey(m) == Keys(m)

\* sorted(self._mappings.keys(), key=len, reverse=True)
SortedProjects(m) == SortByLen(<<>>, Keys(m))

\* variant of Matches without the "." appended: a bare prefix test
MatchesBare(qualified_name, project_name) == StartsWith(qualified_name, project_name)

\* qualified_name.startswith(project_name + ".")
Matches(qualified_name, project_name) == StartsWith(qualified_name, project_name \o Dot)

\* variant of ScanProjects without the fallback: no match gives the empty name
ScanProjectsNoFallback(sorted_projects, qualified_name) ==
    LET hits == {i \in 1..Len(sorted_projects) : Matches(qualified_name, sorted_projects[i])}
    IN  IF hits # {}
        THEN sorted_projects[CHOOSE i \in hits : \A j \in hits : i <= j]
        ELSE <<>>

\* the for loop over sorted_projects and the fallback behind it
ScanProjects(sorted_projects, qualified_name) ==
    LET hits == {i \in 1..Len(sorted_projects) : Matches(qualified_name, sorted_projects[i])}
    IN  IF hits # {}
        THEN sorted_projects[CHOOSE i \in hits : \A j \in hits : i <= j]
        ELSE FirstSegment(qualified_name)

\* extract_project_name(qualified_name)
ExtractProjectName(m, qualified_name) == ScanProjects(SortedProjects(m), qualified_name)

\* ", ".join(self._mappings.keys())
Available(m) == Join(Keys(m), <<",", " ">>)

\* what a call gives back: a value, or KeyError with the two fields of its message
\* (`bare`: the KeyError of a dict subscript, whose message is the key alone);
\* `project` is the project name the call worked with
Returned(project, path) ==
    [status |-> "ok", path |-> path, project |-> project, err_project |-> <<>>,
     available |-> <<>>, bare |-> FALSE]

NotFound(project, available) ==
    [status |-> "KeyError", path |-> <<>>, project |-> project, err_project |-> project,
     available |-> available, bare |-> FALSE]

\* variant of GetProjectPath without the membership test, as dict.get would give:
\* an absent project comes back as an empty value instead of KeyError
GetProjectPathLenient(m, project_name) ==
    Returned(project_name, IF Contains(m, project_name) THEN DictGet(m, project_name) ELSE <<>>)

\* get_project_path(project_name)
GetProjectPath(m, project_name) ==
    IF ~Contains(m, project_name)
    THEN NotFound(project_name, Available(m))
    ELSE Returned(project_name, DictGet(m, project_name))

\* variant of ResolvePathFromFqn that looks up the first segment only
ResolveByFirstSegment(m, qualified_name) == GetProjectPath(m, FirstSegment(qualified_name))

\* resolve_path_from_fqn(qualified_name)
ResolvePathFromFqn(m, qualified_name) ==
    LET project_name == ExtractProjectName(m, qualified_name)
    IN  GetProjectPath(m, project_name)

\* variant of ListProjects that gives the names longest first, as the matching
\* loop takes them
ListProjectsByLen(m) == SortedProjects(m)

\* list_projects()
ListProjects(m) == Keys(m)

\* variant of AddProject without .resolve(): the components as given
AddProjectRaw(m, name, path) == DictSet(m, name, path.parts)

\* variant of AddProject with .absolute() for .resolve(): the working directory is
\* put in front of a relative path, links and ".." stay
AddProjectAbsolute(m, name, path) ==
    DictSet(m, name, (IF path.abs THEN <<>> ELSE Cwd) \o path.parts)

\* add_project(name, path): the dict afterwards
AddProject(m, name, path) == DictSet(m, name, Canon(path))

\* variant of RemoveProject without the membership test, as dict.pop(name, None)
RemoveProjectSilent(m, name) == [out |-> Returned(name, <<>>), mappings |-> DictDel(m, name)]

\* variant of RemoveProject without the del: it returns, the entry stays
RemoveProjectKeeping(m, name) ==
    IF ~Contains(m, name)
    THEN [out |-> NotFound(name, Available(m)), mappings |-> m]
    ELSE [out |-> Returned(name, <<>>), mappings |-> m]

\* remove_project(name): the outcome and the dict afterwards
RemoveProject(m, name) ==
    IF ~Contains(m, name)
    THEN [out |-> NotFound(name, Available(m)), mappings |-> m]
    ELSE [out |-> Returned(name, <<>>), mappings |-> DictDel(m, name)]

-----------------------------------------------------------------------------
(* One caller: a call runs to completion, then its result is taken *)

\* dicts a caller can pass to the constructor
RECURSIVE ArgMaps(_, _, _)
ArgMaps(n, names, paths) ==
    IF n = 0 THEN {<<>>}
    ELSE LET shorter == ArgMaps(n - 1, names, paths)
         IN  shorter \cup
             { Append(d, [name |-> k, path |-> p]) :
                 d \in {e \in shorter : Len(e) = n - 1},
                 k \in names, p \in paths }

IsDict(d) == \A i, j \in 1..Len(d) : d[i].name = d[j].name => i = j

Idle ==
    [op |-> "none", via |-> "none", given |-> FALSE, argmap |-> <<>>, target |-> NoPath,
     qname |-> <<>>, name |-> <<>>, path |-> NoPath, pre |-> <<>>,
     status |-> "none", project |-> <<>>, ret_path |-> <<>>, ret_list |-> <<>>,
     err_project |-> <<>>, err_available |-> <<>>, bare |-> FALSE]

\* the record of a call that gave back `out` (of Returned / NotFound)
WithOutcome(call, out) ==
    [call EXCEPT !.status = out.status, !.project = out.project, !.ret_path = out.path,
                 !.err_project = out.err_project, !.err_available = out.available,
                 !.bare = out.bare]

\* the other callers
Writers == {"w1", "w2"}

WriterIdle == [pc |-> "idle", name |-> <<>>, status |-> "none", bare |-> FALSE,
               available |-> <<>>]

\* no interleaved calls
NoThreads ==
    /\ pc = "idle"
    /\ local_project = <<>>
    /\ wr = [w \in Writers |-> WriterIdle]
    /\ seen = {}
    /\ nwrites = 0

Init ==
    \E given \in BOOLEAN, via \in {"init", "from_config"}, target \in TargetRepoPaths :
    \E argmap \in {d \in ArgMaps(MaxEntries, Names, RawPaths) : IsDict(d)} :
        /\ ~given => (via = "init" /\ argmap = <<>>)
        /\ mappings = (IF via = "from_config" THEN FromConfig(argmap, target)
                       ELSE Construct(given, argmap, target))
        /\ last = [Idle EXCEPT !.op = "init", !.via = via, !.given = given,
                               !.argmap = argmap, !.target = target, !.status = "ok"]
        /\ NoThreads

\* variant of Extract that raises KeyError when no registered name matches
ExtractRaising ==
    /\ last.op = "none"
    /\ \E q \in QNames :
        LET hit == \E n \in KeySet(mappings) : Matches(q, n)
        IN  /\ last' = [Idle EXCEPT !.op = "extract", !.qname = q, !.pre = mappings,
                                    !.status = IF hit THEN "ok" ELSE "KeyError",
                                    !.project = ExtractProjectName(mappings, q)]
            /\ UNCHANGED <<mappings, threads>>

\* a call of extract_project_name(q): it has no raise and no failing step
Extract ==
    /\ last.op = "none"
    /\ \E q \in QNames :
        /\ last' = [Idle EXCEPT !.op = "extract", !.qname = q, !.pre = mappings,
                                !.status = "ok",
                                !.project = ExtractProjectName(mappings, q)]
        /\ UNCHANGED <<mappings, threads>>

\* variant of Get that takes the entry out of the dict, as dict.pop would
GetPopping ==
    /\ last.op = "none"
    /\ \E n \in Names :
        /\ last' = WithOutcome([Idle EXCEPT !.op = "get", !.name = n, !.pre = mappings],
                               GetProjectPath(mappings, n))
        /\ mappings' = DictDel(mappings, n)
        /\ UNCHANGED threads

Get ==
    /\ last.op = "none"
    /\ \E n \in Names :
        /\ last' = WithOutcome([Idle EXCEPT !.op = "get", !.name = n, !.pre = mappings],
                               GetProjectPath(mappings, n))
        /\ UNCHANGED <<mappings, threads>>

\* variant of Resolve that registers the project it did not find, with the
\* working directory as its path, before it raises
ResolveRegistering ==
    /\ last.op = "none"
    /\ \E q \in QNames :
        LET out == ResolvePathFromFqn(mappings, q)
        IN  /\ last' = WithOutcome([Idle EXCEPT !.op = "resolve", !.qname = q,
                                                !.pre = mappings], out)
            /\ mappings' = IF out.status = "KeyError" /\ Len(mappings) < MaxEntries
                           THEN DictSet(mappings, out.err_project, Cwd)
                           ELSE mappings
            /\ UNCHANGED threads

Resolve ==
    /\ last.op = "none"
    /\ \E q \in QNames :
        /\ last' = WithOutcome([Idle EXCEPT !.op = "resolve", !.qname = q, !.pre = mappings],
                               ResolvePathFromFqn(mappings, q))
        /\ UNCHANGED <<mappings, threads>>

List ==
    /\ last.op = "none"
    /\ last' = [Idle EXCEPT !.op = "list", !.pre = mappings, !.status = "ok",
                            !.ret_list = ListProjects(mappings)]
    /\ UNCHANGED <<mappings, threads>>

Add ==
    /\ last.op = "none"
    /\ \E n \in Names, p \in RawPaths :
        /\ Contains(mappings, n) \/ Len(mappings) < MaxEntries
        /\ mappings' = AddProject(mappings, n, p)
        /\ last' = [Idle EXCEPT !.op = "add", !.name = n, !.path = p, !.pre = mappings,
                                !.status = "ok"]
        /\ UNCHANGED threads

Remove ==
    /\ last.op = "none"
    /\ \E n \in Names :
        /\ mappings' = RemoveProject(mappings, n).mappings
        /\ last' = WithOutcome([Idle EXCEPT !.op = "remove", !.name = n, !.pre = mappings],
                               RemoveProject(mappings, n).out)
        /\ UNCHANGED threads

\* the caller takes the result; the next call can start
Return ==
    /\ last.op # "none"
    /\ last' = Idle
    /\ UNCHANGED <<mappings, threads>>

Next == Extract \/ Get \/ Resolve \/ List \/ Add \/ Remove \/ Return

Spec == Init /\ [][Next]_vars

-----------------------------------------------------------------------------
(* One caller on a hierarchy three names deep: "a", "a.b" and "a.b.a" added,    *)
(* removed and added again in any order, and names below each of them resolved  *)

MaxDeep == 3

NameABA == <<"a", ".", "b", ".", "a">>
DeepNames == {NameA, NameAB, NameABA}

\* "a.b.a.b", "a.b.a", "a.b.b", "a.b.", "a.a", "a.b", "b.a"
DeepQNames == {
    NameABA \o <<".", "b">>, NameABA, NameAB \o <<".", "b">>, NameAB \o Dot,
    NameA \o <<".", "a">>, NameAB, <<"b", ".", "a">> }

\* "/a", "a", "/l/../b/a"
DeepPaths == {
    [abs |-> TRUE,  parts |-> << <<"a">> >>],
    [abs |-> FALSE, parts |-> << <<"a">> >>],
    [abs |-> TRUE,  parts |-> << <<"l">>, DotDot, <<"b">>, <<"a">> >>] }

InitDeep ==
    \E argmap \in {d \in ArgMaps(MaxDeep, DeepNames, DeepPaths) : IsDict(d)} :
        /\ mappings = Construct(TRUE, argmap, NoPath)
        /\ last = [Idle EXCEPT !.op = "init", !.via = "init", !.given = TRUE,
                               !.argmap = argmap, !.status = "ok"]
        /\ NoThreads

DExtract ==
    /\ last.op = "none"
    /\ \E q \in DeepQNames :
        /\ last' = [Idle EXCEPT !.op = "extract", !.qname = q, !.pre = mappings,
                                !.status = "ok",
                                !.project = ExtractProjectName(mappings, q)]
        /\ UNCHANGED <<mappings, threads>>

DResolve ==
    /\ last.op = "none"
    /\ \E q \in DeepQNames :
        /\ last' = WithOutcome([Idle EXCEPT !.op = "resolve", !.qname = q, !.pre = mappings],
                               ResolvePathFromFqn(mappings, q))
        /\ UNCHANGED <<mappings, threads>>

DAdd ==
    /\ last.op = "none"
    /\ \E n \in DeepNames, p \in DeepPaths :
        /\ Contains(mappings, n) \/ Len(mappings) < MaxDeep
        /\ mappings' = AddProject(mappings, n, p)
        /\ last' = [Idle EXCEPT !.op = "add", !.name = n, !.path = p, !.pre = mappings,
                                !.status = "ok"]
        /\ UNCHANGED threads

DRemove ==
    /\ last.op = "none"
    /\ \E n \in DeepNames :
        /\ mappings' = RemoveProject(mappings, n).mappings
        /\ last' = WithOutcome([Idle EXCEPT !.op = "remove", !.name = n, !.pre = mappings],
                               RemoveProject(mappings, n).out)
        /\ UNCHANGED threads

NextDeep == DExtract \/ DResolve \/ DAdd \/ DRemove \/ Return

SpecDeep == InitDeep /\ [][NextDeep]_vars

-----------------------------------------------------------------------------
(* Several callers on one instance: the calls interleave at each access to       *)
(* self._mappings.  One caller reads (extract_project_name, get_project_path,    *)
(* resolve_path_from_fqn, list_projects); the others call add_project and        *)
(* remove_project.  The class holds no lock.                                     *)

\* arguments of the interleaved calls
ConcNames == {NameA, NameAB}
ConcQNames == { <<"a", ".", "b", ".", "a">>, <<"a", ".", "a">>, <<"b">> }
ConcPaths == { [abs |-> TRUE, parts |-> << <<"a">> >>], [abs |-> FALSE, parts |-> << <<"a">> >>] }

\* KeyError(key) of self._mappings[key] / del self._mappings[key] for an absent key
NotFoundBare(project) ==
    [status |-> "KeyError", path |-> <<>>, project |-> project, err_project |-> project,
     available |-> <<>>, bare |-> TRUE]

InitConc ==
    \E argmap \in {d \in ArgMaps(MaxEntries, ConcNames, ConcPaths) : IsDict(d)},
       target \in ConcPaths :
        /\ mappings = Construct(TRUE, argmap, target)
        /\ last = Idle
        /\ NoThreads

\* a read is in progress
Reading == pc \notin {"idle", "done"}

\* the start of a read: from here on the values of the dict are followed
Begin(call, at, project) ==
    /\ pc = "idle"
    /\ last' = [call EXCEPT !.pre = mappings]
    /\ pc' = at
    /\ local_project' = project
    /\ seen' = {mappings}
    /\ nwrites' = 0
    /\ UNCHANGED <<mappings, wr>>

RCallExtract ==
    \E q \in ConcQNames : Begin([Idle EXCEPT !.op = "extract", !.qname = q], "sort", <<>>)

RCallResolve ==
    \E q \in ConcQNames : Begin([Idle EXCEPT !.op = "resolve", !.qname = q], "sort", <<>>)

RCallGet ==
    \E n \in ConcNames : Begin([Idle EXCEPT !.op = "get", !.name = n], "check", n)

RCallList == Begin([Idle EXCEPT !.op = "list"], "list", <<>>)

\* sorted_projects = sorted(self._mappings.keys(), ...), then the loop and the
\* fallback, which read only locals
RSort ==
    /\ pc = "sort"
    /\ local_project' = ScanProjects(SortedProjects(mappings), last.qname)
    /\ IF last.op = "extract"
       THEN /\ last' = [last EXCEPT !.status = "ok", !.project = local_project']
            /\ pc' = "done"
       ELSE /\ pc' = "check"
            /\ UNCHANGED last
    /\ UNCHANGED <<mappings, wr, seen, nwrites>>

\* if project_name not in self._mappings
RCheck ==
    /\ pc = "check"
    /\ pc' = IF ~Contains(mappings, local_project) THEN "join" ELSE "lookup"
    /\ UNCHANGED <<mappings, last, local_project, wr, seen, nwrites>>

\* available = ", ".join(self._mappings.keys()); raise KeyError(...)
RJoin ==
    /\ pc = "join"
    /\ last' = WithOutcome(last, NotFound(local_project, Available(mappings)))
    /\ pc' = "done"
    /\ UNCHANGED <<mappings, local_project, wr, seen, nwrites>>

\* return self._mappings[project_name]
RLookup ==
    /\ pc = "lookup"
    /\ last' = WithOutcome(last, IF Contains(mappings, local_project)
                                 THEN Returned(local_project, DictGet(mappings, local_project))
                                 ELSE NotFoundBare(local_project))
    /\ pc' = "done"
    /\ UNCHANGED <<mappings, local_project, wr, seen, nwrites>>

\* return list(self._mappings.keys())
RList ==
    /\ pc = "list"
    /\ last' = [last EXCEPT !.status = "ok", !.ret_list = ListProjects(mappings)]
    /\ pc' = "done"
    /\ UNCHANGED <<mappings, local_project, wr, seen, nwrites>>

RReturn ==
    /\ pc = "done"
    /\ pc' = "idle"
    /\ last' = Idle
    /\ local_project' = <<>>
    /\ seen' = {}
    /\ nwrites' = 0
    /\ UNCHANGED <<mappings, wr>>

\* A finished read is taken by its caller before the other callers go on: the
\* two commute, so no outcome is lost, and the dict values of the read stay
\* those up to its return.
OthersStep == pc # "done"

\* a store into / delete from the dict by another caller
CanWrite == ~Reading \/ nwrites < MaxWrites

Mutate(m) ==
    /\ mappings' = m
    /\ IF Reading
       THEN seen' = seen \cup {m} /\ nwrites' = nwrites + 1
       ELSE UNCHANGED <<seen, nwrites>>

\* add_project(name, path): one store
WAdd(w) ==
    /\ OthersStep
    /\ wr[w].pc = "idle"
    /\ CanWrite
    /\ \E n \in ConcNames, p \in ConcPaths :
        /\ Contains(mappings, n) \/ Len(mappings) < MaxEntries
        /\ Mutate(AddProject(mappings, n, p))
    /\ UNCHANGED <<last, pc, local_project, wr>>

WCallRemove(w) ==
    /\ OthersStep
    /\ wr[w].pc = "idle"
    /\ \E n \in ConcNames : wr' = [wr EXCEPT ![w] = [WriterIdle EXCEPT !.pc = "check", !.name = n]]
    /\ UNCHANGED <<mappings, last, pc, local_project, seen, nwrites>>

\* if name not in self._mappings
WCheck(w) ==
    /\ OthersStep
    /\ wr[w].pc = "check"
    /\ wr' = [wr EXCEPT ![w].pc = IF ~Contains(mappings, wr[w].name) THEN "join" ELSE "del"]
    /\ UNCHANGED <<mappings, last, pc, local_project, seen, nwrites>>

\* raise KeyError(... available=", ".join(self._mappings.keys()))
WJoin(w) ==
    /\ OthersStep
    /\ wr[w].pc = "join"
    /\ wr' = [wr EXCEPT ![w].pc = "done", ![w].status = "KeyError",
                        ![w].available = Available(mappings)]
    /\ UNCHANGED <<mappings, last, pc, local_project, seen, nwrites>>

\* del self._mappings[name]
WDel(w) ==
    /\ OthersStep
    /\ wr[w].pc = "del"
    /\ IF Contains(mappings, wr[w].name)
       THEN /\ CanWrite
            /\ Mutate(DictDel(mappings, wr[w].name))
            /\ wr' = [wr EXCEPT ![w].pc = "done", ![w].status = "ok"]
       ELSE /\ wr' = [wr EXCEPT ![w].pc = "done", ![w].status = "KeyError", ![w].bare = TRUE]
            /\ UNCHANGED <<mappings, seen, nwrites>>
    /\ UNCHANGED <<last, pc, local_project>>

WReturn(w) ==
    /\ OthersStep
    /\ wr[w].pc = "done"
    /\ wr' = [wr EXCEPT ![w] = WriterIdle]
    /\ UNCHANGED <<mappings, last, pc, local_project, seen, nwrites>>

NextConc ==
    \/ RCallExtract \/ RCallResolve \/ RCallGet \/ RCallList
    \/ RSort \/ RCheck \/ RJoin \/ RLookup \/ RList \/ RReturn
    \/ \E w \in Writers : WAdd(w) \/ WCallRemove(w) \/ WCheck(w) \/ WJoin(w) \/ WDel(w)
                           \/ WReturn(w)

SpecConc == InitConc /\ [][NextConc]_vars

-----------------------------------------------------------------------------
(* Properties of one caller's calls *)

\* the registered names that are dot-bounded prefixes of q
DotBoundedPrefixes(m, q) == {p \in KeySet(m) : StartsWith(q, p \o Dot)}

\* s is q up to, and without, its first "." (all of q if q has none)
IsBeforeFirstDot(s, q) ==
    /\ StartsWith(q, s)
    /\ \A i \in 1..Len(s) : s[i] # "."
    /\ Len(s) = Len(q) \/ q[Len(s) + 1] = "."

\* item s occurs in the text t
Occurs(s, t) == \E i \in 1..(Len(t) + 1) : StartsWith(SubSeq(t, i, Len(t)), s)

\* C1: extract_project_name returns the longest registered name p with
\* "q starts with p + '.'", whenever there is one.
LongestPrefixWins ==
    last.op = "extract" =>
        LET cands == DotBoundedPrefixes(mappings, last.qname)
        IN  cands # {} =>
                /\ last.project \in cands
                /\ \A p \in cands : Len(p) <= Len(last.project)

\* "a" and "a.b" registered, "a" first, and a name under "a.b." extracted as "a.b"
LongestPrefixWinsWitness ==
    /\ last.op = "extract"
    /\ Keys(mappings) = <<NameA, NameAB>>
    /\ StartsWith(last.qname, NameAB \o Dot)
    /\ Len(last.qname) > Len(NameAB) + 1
    /\ last.project = NameAB

\* C2: a registered name that is a strict prefix of q followed by a character
\* other than "." is not what extract_project_name returns for q, nor the project
\* resolve_path_from_fqn takes q's path from.
DotBoundarySafety ==
    last.op \in {"extract", "resolve"} =>
        \A p \in KeySet(mappings) :
            (/\ Len(p) < Len(last.qname)
             /\ StartsWith(last.qname, p)
             /\ last.qname[Len(p) + 1] # ".") => last.project # p

\* "a" registered, a name starting "ab." resolved: not from "a"
DotBoundarySafetyWitness ==
    /\ last.op = "resolve"
    /\ NameA \in KeySet(mappings)
    /\ StartsWith(last.qname, <<"a", "b", ".">>)
    /\ last.project = <<"a", "b">>

\* C3: when no registered name is a dot-bounded prefix of q, extract_project_name
\* returns q up to its first "." (all of q without one), registered or not.
FallbackFirstSegment ==
    (last.op = "extract" /\ DotBoundedPrefixes(mappings, last.qname) = {}) =>
        IsBeforeFirstDot(last.project, last.qname)

\* a fallback on a non-empty dict for a name with a segment behind the first dot
FallbackFirstSegmentWitness ==
    /\ last.op = "extract"
    /\ Len(mappings) > 0
    /\ DotBoundedPrefixes(mappings, last.qname) = {}
    /\ last.project = <<"b">>
    /\ Len(last.qname) > 2
    /\ last.project \notin KeySet(mappings)

\* C4 as stated: when q's first segment is not a registered name,
\* extract_project_name returns that segment and resolve_path_from_fqn raises.
UnregisteredFirstSegmentOriginal ==
    (/\ last.op \in {"extract", "resolve"}
     /\ \A p \in KeySet(mappings) : ~IsBeforeFirstDot(p, last.qname)) =>
        /\ last.op = "extract" => IsBeforeFirstDot(last.project, last.qname)
        /\ last.op = "resolve" => last.status = "KeyError"

\* C4, amended: when q's first segment is not a registered name and no registered
\* name is a dot-bounded prefix of q, extract_project_name returns that segment and
\* resolve_path_from_fqn raises KeyError.
UnregisteredFirstSegment ==
    (/\ last.op \in {"extract", "resolve"}
     /\ \A p \in KeySet(mappings) : ~IsBeforeFirstDot(p, last.qname)
     /\ DotBoundedPrefixes(mappings, last.qname) = {}) =>
        /\ last.op = "extract" => IsBeforeFirstDot(last.project, last.qname)
        /\ last.op = "resolve" =>
              /\ last.status = "KeyError"
              /\ IsBeforeFirstDot(last.err_project, last.qname)

\* a resolve of "b..." that fails on a dict holding other names
UnregisteredFirstSegmentWitness ==
    /\ last.op = "resolve"
    /\ Len(mappings) = 2
    /\ DotBoundedPrefixes(mappings, last.qname) = {}
    /\ StartsWith(last.qname, <<"b", ".">>)
    /\ last.status = "KeyError"
    /\ last.err_project = <<"b">>

\* C5: resolve_path_from_fqn(q) returns the stored path of extract_project_name(q)
\* when that name is registered and raises KeyError for it exactly when it is not.
ResolveComposition ==
    last.op = "resolve" =>
        LET e == ExtractProjectName(mappings, last.qname)
        IN  IF e \in KeySet(mappings)
            THEN /\ last.status = "ok"
                 /\ \E i \in 1..Len(mappings) :
                        mappings[i].name = e /\ mappings[i].path = last.ret_path
            ELSE /\ last.status = "KeyError"
                 /\ last.err_project = e

\* a resolve that takes the path of "a.b" although "a" is registered with another path
ResolveCompositionWitness ==
    /\ last.op = "resolve"
    /\ last.status = "ok"
    /\ last.project = NameAB
    /\ Contains(mappings, NameA)
    /\ DictGet(mappings, NameA) # last.ret_path

\* C6: after add_project(n, p), get_project_path(n) returns the resolved form of p.
AddGetRoundTrip ==
    last.op = "add" =>
        LET got == GetProjectPath(mappings, last.name)
        IN  got.status = "ok" /\ got.path = Canon(last.path)

\* a relative path added under a name that was registered with another path
AddGetRoundTripWitness ==
    /\ last.op = "add"
    /\ ~last.path.abs
    /\ Contains(last.pre, last.name)
    /\ DictGet(last.pre, last.name) # DictGet(mappings, last.name)

\* C7: add_project on a registered name replaces its path, keeps the length of
\* list_projects() and leaves one entry for the name; on an absent name the
\* length grows by one.
OverwriteOnDuplicate ==
    last.op = "add" =>
        LET before == ListProjects(last.pre)
            after == ListProjects(mappings)
        IN  /\ Cardinality({i \in 1..Len(after) : after[i] = last.name}) = 1
            /\ \A i \in 1..Len(mappings) :
                   mappings[i].name = last.name => mappings[i].path = Canon(last.path)
            /\ IF \E i \in 1..Len(before) : before[i] = last.name
               THEN Len(after) = Len(before)
               ELSE Len(after) = Len(before) + 1

\* an add that replaced the path of the first of two entries
OverwriteOnDuplicateWitness ==
    /\ last.op = "add"
    /\ Len(last.pre) = 2
    /\ last.pre[1].name = last.name
    /\ last.pre[1].path # mappings[1].path

\* C8: remove_project(n) for an absent n raises KeyError that names n and lists the
\* registered names, and the dict is what it was before the call.
FailedRemoveIsNoOp ==
    (last.op = "remove" /\ last.name \notin KeySet(last.pre)) =>
        /\ last.status = "KeyError"
        /\ last.err_project = last.name
        /\ \A k \in KeySet(last.pre) : Occurs(k, last.err_available)
        /\ mappings = last.pre

\* a failed remove on a dict of two entries
FailedRemoveIsNoOpWitness ==
    /\ last.op = "remove"
    /\ last.status = "KeyError"
    /\ Len(mappings) = 2

\* C9: construction from an explicit dict, the empty one and the one of
\* from_config included, registers exactly the dict's names with their resolved
\* paths and no default entry; from the empty dict nothing is registered and
\* every lookup raises KeyError with nothing listed.
ExplicitMappingConstruction ==
    (last.op = "init" /\ last.given) =>
        /\ Keys(mappings) = [i \in 1..Len(last.argmap) |-> last.argmap[i].name]
        /\ \A i \in 1..Len(last.argmap) : mappings[i].path = Canon(last.argmap[i].path)
        /\ last.argmap = <<>> =>
              /\ ListProjects(mappings) = <<>>
              /\ \A n \in Names :
                    /\ GetProjectPath(mappings, n).status = "KeyError"
                    /\ GetProjectPath(mappings, n).available = <<>>

\* key lists of the dicts an instance can hold
KeyLists ==
    {ks \in UNION {[1..n -> Names] : n \in 0..MaxEntries} :
        \A i, j \in 1..Len(ks) : ks[i] = ks[j] => i = j}

\* C11: a KeyError of get_project_path, remove_project or resolve_path_from_fqn
\* names the requested (for resolve: the extracted) project, and its list of
\* available names is the list of the registered names and of no other set of names.
NotFoundPayload ==
    (last.op \in {"get", "remove", "resolve"} /\ last.status = "KeyError") =>
        /\ ~last.bare
        /\ last.err_project = (IF last.op = "resolve"
                               THEN ExtractProjectName(last.pre, last.qname)
                               ELSE last.name)
        /\ \A ks \in KeyLists :
               Join(ks, <<",", " ">>) = last.err_available =>
                   {ks[i] : i \in 1..Len(ks)} = KeySet(last.pre)

\* a string over the alphabet
IsString(s) == DOMAIN s = 1..Len(s) /\ \A i \in 1..Len(s) : s[i] \in Char

\* C12: extract_project_name gives a string and raises nothing, whatever the dict
\* (empty or not) and whatever the name (empty, without dots, or with dots).
ExtractIsTotal ==
    last.op = "extract" =>
        /\ last.status = "ok"
        /\ IsString(last.project)
        /\ Len(last.project) <= Len(last.qname)

\* the empty name extracted on the empty dict
ExtractIsTotalWitness ==
    /\ last.op = "extract"
    /\ last.pre = <<>>
    /\ last.qname = <<>>
    /\ last.status = "ok"
    /\ last.project = <<>>

\* C13: for a name q without ".", extract_project_name(q) is q, also when q is a
\* registered name.
DotlessPassThrough ==
    (last.op = "extract" /\ \A i \in 1..Len(last.qname) : last.qname[i] # ".") =>
        last.project = last.qname

\* "ab" extracted from "ab" while "a" and "ab" are registered
DotlessPassThroughWitness ==
    /\ last.op = "extract"
    /\ last.qname = <<"a", "b">>
    /\ KeySet(mappings) = {<<"a">>, <<"a", "b">>}
    /\ last.project = <<"a", "b">>

\* C14: remove_project(n) for a registered n takes out that entry and no other:
\* n is no longer listed, get_project_path(n) raises KeyError for n, and every
\* other name is still registered with the path it had.
SuccessfulRemove ==
    (last.op = "remove" /\ last.name \in KeySet(last.pre)) =>
        LET after == ListProjects(mappings)
            got == GetProjectPath(mappings, last.name)
        IN  /\ last.status = "ok"
            /\ \A i \in 1..Len(after) : after[i] # last.name
            /\ got.status = "KeyError" /\ got.err_project = last.name
            /\ KeySet(mappings) = KeySet(last.pre) \ {last.name}
            /\ \A k \in KeySet(last.pre) \ {last.name} :
                   \E i \in 1..Len(last.pre), j \in 1..Len(mappings) :
                       /\ last.pre[i].name = k
                       /\ mappings[j] = last.pre[i]
            /\ Len(mappings) = Len(last.pre) - 1

\* the second of two entries removed, the first one left as it was
SuccessfulRemoveWitness ==
    /\ last.op = "remove"
    /\ last.status = "ok"
    /\ Len(last.pre) = 2
    /\ last.pre[2].name = last.name
    /\ mappings = <<last.pre[1]>>

\* a resolved path: no ".." component and no link at its start
IsResolved(r) ==
    /\ \A i \in 1..Len(r) : r[i] # DotDot
    /\ SubSeq(r, 1, Len(LinkAt)) # LinkAt

\* C15: in every state every stored path is a resolved path, one that
\* Path.resolve() maps to itself: nothing relative, linked or with ".." is kept.
CanonicalRoots ==
    \A i \in 1..Len(mappings) :
        /\ Canon([abs |-> TRUE, parts |-> mappings[i].path]) = mappings[i].path
        /\ IsResolved(mappings[i].path)

\* "/l/../b/a" added where the constructor had stored a relative path: both
\* entries hold resolved paths
CanonicalRootsWitness ==
    /\ last.op = "add"
    /\ last.path = [abs |-> TRUE, parts |-> << <<"l">>, DotDot, <<"b">>, <<"a">> >>]
    /\ Len(mappings) = 2
    /\ mappings[2].name = last.name
    /\ mappings[2].path = << <<"b">>, <<"a">> >>
    /\ mappings[1].path = << <<"a">> >>

\* C16: list_projects, get_project_path, extract_project_name and
\* resolve_path_from_fqn, returning or raising, leave the dict as it was; after
\* construction only add_project and remove_project leave another dict.
ReadsDoNotMutate ==
    /\ last.op \in {"list", "get", "extract", "resolve"} => mappings = last.pre
    /\ (last.op \notin {"none", "init"} /\ mappings # last.pre) =>
           last.op \in {"add", "remove"}

\* a get_project_path that raised on a dict of two entries
ReadsDoNotMutateWitness ==
    /\ last.op = "get"
    /\ last.status = "KeyError"
    /\ Len(last.pre) = 2
    /\ mappings = last.pre

\* the names of xs are in the order they have in ys, as far as they are in ys
InOrderOf(xs, ys) ==
    \A i, j \in 1..Len(xs) : \A a, b \in 1..Len(ys) :
        (i < j /\ xs[i] = ys[a] /\ xs[j] = ys[b]) => a < b

\* xs without the item k
Without(xs, k) == SelectSeq(xs, LAMBDA x : x # k)

\* C17: list_projects() gives exactly the registered names, each once; after
\* construction from an explicit dict they are in the dict's insertion order, and
\* after remove_project the names left are in the order they had.  The last
\* part is also taken one entry beyond MaxEntries, where two names are left.
ListContentsAndOrder ==
    /\ last.op = "list" =>
           /\ {last.ret_list[i] : i \in 1..Len(last.ret_list)} = KeySet(mappings)
           /\ \A i, j \in 1..Len(last.ret_list) :
                  last.ret_list[i] = last.ret_list[j] => i = j
           /\ Len(last.ret_list) = Len(mappings)
           /\ \A n \in Names \ KeySet(mappings), p \in RawPaths, k \in KeySet(mappings) :
                  LET more == AddProject(mappings, n, p)
                  IN  ListProjects(RemoveProject(more, k).mappings)
                          = Without(ListProjects(more), k)
    /\ (last.op = "init" /\ last.given) =>
           InOrderOf(ListProjects(mappings), [i \in 1..Len(last.argmap) |-> last.argmap[i].name])
    /\ (last.op = "remove" /\ last.status = "ok") =>
           ListProjects(mappings) = Without(ListProjects(last.pre), last.name)

\* the names of a dict given as {"a": ..., "a.b": ...} listed in that order, which
\* is not the order of the matching loop
ListContentsAndOrderWitness ==
    /\ last.op = "list"
    /\ last.ret_list = <<NameA, NameAB>>
    /\ ListProjects(mappings) # SortedProjects(mappings)

\* C18 as stated: without a dict the constructor registers one entry, named by
\* the last segment of settings.TARGET_REPO_PATH as configured, with the resolved
\* form of that path.
DefaultConstructionOriginal ==
    (last.op = "init" /\ ~last.given) =>
        /\ Len(mappings) = 1
        /\ mappings[1].name = RawName(last.target)
        /\ mappings[1].path = Canon(last.target)

\* C18, amended: without a dict the constructor registers one entry whose path is
\* the resolved form of settings.TARGET_REPO_PATH and whose name is the last
\* segment of that resolved path.
DefaultConstruction ==
    (last.op = "init" /\ ~last.given) =>
        /\ Len(mappings) = 1
        /\ mappings[1].path = Canon(last.target)
        /\ LET r == mappings[1].path
           IN  mappings[1].name = (IF Len(r) = 0 THEN <<>> ELSE r[Len(r)])

\* the default entry for TARGET_REPO_PATH = "/l", a link to /a: named "a"
DefaultConstructionWitness ==
    /\ last.op = "init"
    /\ ~last.given
    /\ last.target = [abs |-> TRUE, parts |-> << <<"l">> >>]
    /\ mappings = << [name |-> <<"a">>, path |-> << <<"a">> >>] >>

\* C19: the constructor and add_project register the empty name; with it
\* registered, extract_project_name(q) for a q that starts with "." gives the
\* empty name when no longer registered name is a dot-bounded prefix of q, and
\* only then.
EmptyNamespace ==
    /\ (last.op = "add" /\ last.name = <<>>) =>
           /\ last.status = "ok"
           /\ \E i \in 1..Len(mappings) :
                  mappings[i].name = <<>> /\ mappings[i].path = Canon(last.path)
    /\ (last.op = "init" /\ last.given) =>
           \A i \in 1..Len(last.argmap) :
               last.argmap[i].name = <<>> => <<>> \in KeySet(mappings)
    /\ (last.op = "extract" /\ <<>> \in KeySet(mappings) /\ StartsWith(last.qname, Dot)) =>
           LET longer == DotBoundedPrefixes(mappings, last.qname) \ {<<>>}
           IN  last.project = <<>> <=> longer = {}

\* ".a.b" extracted as ".a" although the empty name was registered first
EmptyNamespaceWitness ==
    /\ last.op = "extract"
    /\ Keys(mappings) = << <<>>, <<".", "a">> >>
    /\ last.qname = <<".", "a", ".", "b">>
    /\ last.project = <<".", "a">>

\* q has a "."
HasDot(q) == \E i \in 1..Len(q) : q[i] = "."

\* C21: a get_project_path(n) or resolve_path_from_fqn(q) that raises KeyError
\* raises it again on every dict that follows, until an add_project: a call leaves
\* a dict on which get_project_path(n) returns where it raised before only if it
\* is add_project(n, _), and one on which resolve_path_from_fqn(q) returns where
\* it raised before only if it is add_project(p, _) with p + "." a prefix of q, or
\* with p = q for a q without ".".
NoSuccessWithoutMutation ==
    [][mappings' # mappings =>
          /\ \A n \in Names :
                 (/\ GetProjectPath(mappings', n).status = "ok"
                  /\ GetProjectPath(mappings, n).status = "KeyError") =>
                     last'.op = "add" /\ last'.name = n
          /\ \A q \in QNames :
                 (/\ ResolvePathFromFqn(mappings', q).status = "ok"
                  /\ ResolvePathFromFqn(mappings, q).status = "KeyError") =>
                     /\ last'.op = "add"
                     /\ IF HasDot(q) THEN StartsWith(q, last'.name \o Dot)
                                     ELSE last'.name = q]_vars

\* add_project(".a", _) on a dict holding "a": get_project_path(".a") and
\* resolve_path_from_fqn(".a.b") raised before it and return after it
NoSuccessWithoutMutationWitness ==
    /\ last.op = "add"
    /\ last.name = <<".", "a">>
    /\ Keys(last.pre) = <<NameA>>
    /\ ResolvePathFromFqn(last.pre, <<".", "a", ".", "b">>).status = "KeyError"
    /\ ResolvePathFromFqn(mappings, <<".", "a", ".", "b">>).status = "ok"
    /\ GetProjectPath(last.pre, last.name).status = "KeyError"
    /\ GetProjectPath(mappings, last.name).status = "ok"

\* C22: for a q with a ".", the name extract_project_name falls back to is not a
\* registered name, so resolve_path_from_fqn(q) returns exactly when a registered
\* name is a dot-bounded prefix of q; for a q without ".", it returns exactly
\* when q is a registered name.
GroundedResolve ==
    /\ (last.op \in {"extract", "resolve"} /\ HasDot(last.qname)
          /\ DotBoundedPrefixes(mappings, last.qname) = {}) =>
           last.project \notin KeySet(mappings)
    /\ last.op = "resolve" =>
           (last.status = "ok" <=>
               IF HasDot(last.qname)
               THEN DotBoundedPrefixes(mappings, last.qname) # {}
               ELSE last.qname \in KeySet(mappings))
    /\ last.op = "resolve" => last.status \in {"ok", "KeyError"}

\* "ab.a" resolved with "a" and "a.b" registered: the fallback "ab" is not found
GroundedResolveWitness ==
    /\ last.op = "resolve"
    /\ last.qname = <<"a", "b", ".", "a">>
    /\ KeySet(mappings) = {NameA, NameAB}
    /\ last.status = "KeyError"
    /\ last.err_project = <<"a", "b">>

\* the entries of m in another insertion order: the first entry moved to the
\* end, and the first two exchanged.  Every insertion order comes from every other
\* by these two steps, and each dict on the way is the dict of an instance built by
\* another sequence of calls; for up to two entries they give the other order.
Reorderings(m) ==
    IF Len(m) < 2 THEN {m}
    ELSE {Tail(m) \o <<Head(m)>>, <<m[2], m[1]>> \o SubSeq(m, 3, Len(m))}

\* C23: every extract_project_name(q) and resolve_path_from_fqn(q) ends with the
\* outcome (the name; the path, or KeyError and the name it is raised for) that the
\* call has on the dict with the same entries in another insertion order; and two
\* distinct registered names of equal length are never both dot-bounded prefixes
\* of q.  (The text of available names in the KeyError follows the insertion order.)
OrderIndependent ==
    [][last'.op \in {"extract", "resolve"} =>
          /\ \A m \in Reorderings(mappings') :
                 IF last'.op = "extract"
                 THEN ExtractProjectName(m, last'.qname) = last'.project
                 ELSE LET out == ResolvePathFromFqn(m, last'.qname)
                      IN  /\ out.status = last'.status
                          /\ out.path = last'.ret_path
                          /\ out.project = last'.project
                          /\ out.err_project = last'.err_project
          /\ \A p1, p2 \in DotBoundedPrefixes(mappings', last'.qname) :
                 Len(p1) = Len(p2) => p1 = p2]_vars

\* "a.b.a" resolved to the path of "a.b", registered behind "a" with another path
OrderIndependentWitness ==
    /\ last.op = "resolve"
    /\ last.qname = <<"a", ".", "b", ".", "a">>
    /\ Keys(mappings) = <<NameA, NameAB>>
    /\ mappings[1].path # mappings[2].path
    /\ last.status = "ok"
    /\ last.ret_path = mappings[2].path

-----------------------------------------------------------------------------
(* Properties of one caller's calls on the hierarchy three names deep *)

\* the read that follows a call finds the dict the call left: what it gives for q
NextExtract(q) == ExtractProjectName(mappings, q)
NextResolve(q) == ResolvePathFromFqn(mappings, q)

\* C24 as stated: with "a" and "a.b" registered, after remove_project("a.b") every
\* q that starts with "a.b." is extracted as "a" and resolved to the path of "a";
\* after add_project("a.b", p) every such q is extracted as "a.b" and resolved to
\* the resolved form of p; the next read sees the call.
FallThroughOriginal ==
    /\ (/\ last.op = "remove" /\ last.status = "ok" /\ last.name = NameAB
        /\ NameA \in KeySet(last.pre)) =>
           \A q \in DeepQNames : StartsWith(q, NameAB \o Dot) =>
               /\ NextExtract(q) = NameA
               /\ NextResolve(q).status = "ok"
               /\ NextResolve(q).path = DictGet(last.pre, NameA)
    /\ (last.op = "add" /\ last.name = NameAB /\ NameA \in KeySet(last.pre)) =>
           \A q \in DeepQNames : StartsWith(q, NameAB \o Dot) =>
               /\ NextExtract(q) = NameAB
               /\ NextResolve(q).status = "ok"
               /\ NextResolve(q).path = Canon(last.path)

\* no registered name longer than "a.b" is a dot-bounded prefix of q
NothingBelow(q) == \A p \in DotBoundedPrefixes(mappings, q) : Len(p) <= Len(NameAB)

\* C24, amended: with "a" and "a.b" registered, after remove_project("a.b") every
\* q that starts with "a.b." and has no longer registered name as a dot-bounded
\* prefix is extracted as "a" and resolved to the path of "a"; after
\* add_project("a.b", p) every such q is extracted as "a.b" and resolved to the
\* resolved form of p; the next read sees the call.
FallThrough ==
    /\ (/\ last.op = "remove" /\ last.status = "ok" /\ last.name = NameAB
        /\ NameA \in KeySet(last.pre)) =>
           \A q \in DeepQNames : (StartsWith(q, NameAB \o Dot) /\ NothingBelow(q)) =>
               /\ NextExtract(q) = NameA
               /\ NextResolve(q).status = "ok"
               /\ NextResolve(q).path = DictGet(last.pre, NameA)
    /\ (last.op = "add" /\ last.name = NameAB /\ NameA \in KeySet(last.pre)) =>
           \A q \in DeepQNames : (StartsWith(q, NameAB \o Dot) /\ NothingBelow(q)) =>
               /\ NextExtract(q) = NameAB
               /\ NextResolve(q).status = "ok"
               /\ NextResolve(q).path = Canon(last.path)

\* "a.b" removed from between "a" and "a.b.a": "a.b.b" now resolves to the path
\* of "a", "a.b.a.b" to that of "a.b.a"
FallThroughWitness ==
    /\ last.op = "remove"
    /\ last.status = "ok"
    /\ last.name = NameAB
    /\ KeySet(mappings) = {NameA, NameABA}
    /\ DictGet(mappings, NameA) # DictGet(mappings, NameABA)
    /\ NextResolve(NameAB \o <<".", "b">>).path = DictGet(mappings, NameA)
    /\ NextResolve(NameABA \o <<".", "b">>).path = DictGet(mappings, NameABA)

-----------------------------------------------------------------------------
(* Properties of interleaved calls *)

\* the finished read in `last` gave what the same call gives on the dict value m
SameAsOn(m) ==
    LET same(o) == /\ last.status = o.status
                   /\ last.ret_path = o.path
                   /\ last.err_project = o.err_project
    IN  CASE last.op = "extract" -> last.project = ExtractProjectName(m, last.qname)
          [] last.op = "resolve" -> same(ResolvePathFromFqn(m, last.qname))
          [] last.op = "get" -> same(GetProjectPath(m, last.name))
          [] last.op = "list" -> last.ret_list = ListProjects(m)

\* C10: a read that runs while other callers add and remove gives the outcome
\* (path or KeyError, and for which name) that the same call has on the dict as it
\* was at one instant between the read's start and its return.
ConsistentSnapshotReads ==
    pc = "done" => \E m \in seen : SameAsOn(m)

\* C20: get_project_path and remove_project are atomic against remove_project
\* of other callers: the name found by the membership test is still there at the
\* subscript or the del, two removes of one name are never both behind the test,
\* and a call that fails raises the KeyError that names the project and lists
\* the available names, never the KeyError of the subscript or the del.
AtomicMutations ==
    /\ (pc = "lookup" /\ last.op = "get") => Contains(mappings, local_project)
    /\ \A w \in Writers : wr[w].pc = "del" => Contains(mappings, wr[w].name)
    /\ \A v, w \in Writers :
           (v # w /\ wr[v].pc = "del" /\ wr[w].pc = "del") => wr[v].name # wr[w].name
    /\ (pc = "done" /\ last.op = "get" /\ last.status = "KeyError") =>
           ~last.bare /\ last.err_project = last.name
    /\ \A w \in Writers : (wr[w].pc = "done" /\ wr[w].status = "KeyError") => ~wr[w].bare

====
